---- MODULE Spec2Model ----
(***************************************************************************)
(* Model of the suggestion service host (app.js): configuration from the   *)
(* environment, process start-up (cluster master / workers, gazetteer      *)
(* load, HTTP listener) and the request handler handlerSuggestion with its *)
(* asynchronous catalog query.  The libraries lib/data-store, lib/sorting  *)
(* and lib/scoring are modelled from the specification's component         *)
(* contracts (sections 4.1 - 4.6).                                         *)
(*                                                                         *)
(* Strings are tuples of characters, so that length, prefix and number     *)
(* parsing are computed.  An ASCII character is the one-character string   *)
(* of itself ("a", "\t"); any other UTF-16 code unit is the string of its  *)
(* code point, "U+" and four upper-case hexadecimal digits ("U+00E9" for   *)
(* e with acute accent, "U+00A0" for the no-break space).                  *)
(* JavaScript values are records                                           *)
(*   [t |-> "undefined" | "string" | "number", s |-> chars, n |-> Int].    *)
(***************************************************************************)
EXTENDS Integers, Sequences, FiniteSets, TLC

\* ------------------------------------------------------------------------
\* JavaScript values and the coercions app.js relies on
\* ------------------------------------------------------------------------

JsUndefined == [t |-> "undefined", s |-> <<>>, n |-> 0]

JsStr(s) == [t |-> "string", s |-> s, n |-> 0]

JsNum(n) == [t |-> "number", s |-> <<>>, n |-> n]

\* ToBoolean: undefined, "" and 0 are falsy; every other string (also "0" and
\* " ") and every other number is truthy.
Truthy(v) ==
  CASE v.t = "undefined" -> FALSE
    [] v.t = "string"    -> v.s # <<>>
    [] v.t = "number"    -> v.n # 0

\* _.isUndefined
IsUndefined(v) == v.t = "undefined"

\* a || b
JsOr(a, b) == IF Truthy(a) THEN a ELSE b

\* the one element of a one-element set
Only(S) == CHOOSE x \in S : TRUE

\* the least and the greatest element of a non-empty set of integers
Least(S) == CHOOSE x \in S : \A y \in S : x <= y

Greatest(S) == CHOOSE x \in S : \A y \in S : y <= x

\* StrWhiteSpaceChar: tab, LF, VT, FF, CR, space, the no-break space, the
\* space separators U+1680, U+2000 - U+200A, U+202F, U+205F and U+3000, the
\* line and paragraph separators and the byte order mark
WhiteSpace ==
  {"\t", "\n", "", "\f", "\r", " ", "U+00A0", "U+1680", "U+2000", "U+2001",
   "U+2002", "U+2003", "U+2004", "U+2005", "U+2006", "U+2007", "U+2008",
   "U+2009", "U+200A", "U+2028", "U+2029", "U+202F", "U+205F", "U+3000",
   "U+FEFF"}

TrimLeft(s) ==
  LET keep == {i \in DOMAIN s : s[i] \notin WhiteSpace} IN
  IF keep = {} THEN <<>> ELSE SubSeq(s, Least(keep), Len(s))

TrimRight(s) ==
  LET keep == {i \in DOMAIN s : s[i] \notin WhiteSpace} IN
  IF keep = {} THEN <<>> ELSE SubSeq(s, 1, Greatest(keep))

Trim(s) == TrimRight(TrimLeft(s))

\* the digits of the radixes 2, 8, 10 and 16, in either case
DigitSeq ==
  <<"0", "1", "2", "3", "4", "5", "6", "7", "8", "9",
    "a", "b", "c", "d", "e", "f">>

UpperDigitSeq ==
  <<"0", "1", "2", "3", "4", "5", "6", "7", "8", "9",
    "A", "B", "C", "D", "E", "F">>

IsDigit(c, radix) ==
  \E i \in 1..radix : DigitSeq[i] = c \/ UpperDigitSeq[i] = c

DigitVal(c) ==
  (CHOOSE i \in DOMAIN DigitSeq : DigitSeq[i] = c \/ UpperDigitSeq[i] = c) - 1

AllDigits(s, radix) == \A i \in DOMAIN s : IsDigit(s[i], radix)

\* a function on 1..n as a tuple of its values
AsTuple(f) == SubSeq(f, 1, Len(f))

\* Decimal numerals are sequences of the integers 0..9, most significant
\* first unless said otherwise, so that a numeral of any length has a value.
DigitAt(d, i) == IF i \in DOMAIN d THEN d[i] ELSE 0

StripLeft(d) ==
  LET nz == {i \in DOMAIN d : d[i] # 0} IN
  IF nz = {} THEN <<>> ELSE SubSeq(d, Least(nz), Len(d))

StripRight(d) ==
  LET nz == {i \in DOMAIN d : d[i] # 0} IN
  IF nz = {} THEN <<>> ELSE SubSeq(d, 1, Greatest(nz))

Reverse(d) == AsTuple([i \in 1..Len(d) |-> d[Len(d) + 1 - i]])

\* a <= b for two digit sequences read as fractions 0.a and 0.b
FractionLeq(a, b) ==
  LET n    == IF Len(a) >= Len(b) THEN Len(a) ELSE Len(b)
      diff == {i \in 1..n : DigitAt(a, i) # DigitAt(b, i)}
  IN diff = {} \/ DigitAt(a, Least(diff)) < DigitAt(b, Least(diff))

\* d * radix + carry for a numeral d written least significant digit first
RECURSIVE MulAdd(_, _, _)
MulAdd(d, radix, carry) ==
  IF d = <<>>
    THEN IF carry = 0 THEN <<>>
         ELSE <<carry % 10>> \o MulAdd(<<>>, radix, carry \div 10)
  ELSE <<(Head(d) * radix + carry) % 10>>
         \o MulAdd(Tail(d), radix, (Head(d) * radix + carry) \div 10)

\* the decimal numeral, least significant digit first, of the numeral s
\* written in the given radix
RECURSIVE RadixToDecimal(_, _)
RadixToDecimal(s, radix) ==
  IF s = <<>> THEN <<>>
  ELSE MulAdd(RadixToDecimal(SubSeq(s, 1, Len(s) - 1), radix), radix,
              DigitVal(s[Len(s)]))

\* the decimal numeral of a natural number
NatDigits(n) == Reverse(MulAdd(<<>>, 1, n))

RECURSIVE Pow10(_)
Pow10(k) == IF k = 0 THEN 1 ELSE 10 * Pow10(k - 1)

\* the value of a decimal numeral; numerals of ten digits and more count as
\* 10^9, which is above every integer a number is compared with here
RECURSIVE DigitsValue(_)
DigitsValue(d) ==
  IF d = <<>> THEN 0
  ELSE IF Len(d) > 9 THEN Pow10(9)
  ELSE 10 * DigitsValue(SubSeq(d, 1, Len(d) - 1)) + d[Len(d)]

\* A Number value: NaN, an infinity, or sign and magnitude ip.fp, with ip
\* free of leading and fp free of trailing zeros (0 has neither digit).
NaN == [nan |-> TRUE, inf |-> FALSE, neg |-> FALSE, ip |-> <<>>, fp |-> <<>>]

Infinity(neg) ==
  [nan |-> FALSE, inf |-> TRUE, neg |-> neg, ip |-> <<>>, fp |-> <<>>]

Finite(neg, ip, fp) ==
  [nan |-> FALSE, inf |-> FALSE, neg |-> neg, ip |-> ip, fp |-> fp]

\* The digits of 2^1024 - 2^970, the least magnitude that rounds to Infinity
\* (309 digits before the point), nine digits to an entry
MaxBoundPacked ==
  <<179769313, 486231580, 793728971, 405303415, 79934132, 710037826,
    936173778, 980444968, 292764750, 946649017, 977587207, 96330286,
    416692887, 910946555, 547851940, 402630657, 488671505, 820681908,
    902000708, 383676273, 854845817, 711531764, 475730270, 69855571,
    366959622, 842914819, 860834936, 475292719, 74168444, 365510704,
    342711559, 699508093, 42880177, 904174497, 792000000>>

\* The significant digits of 2^-1075, the greatest magnitude that rounds to
\* 0 (they follow 323 zeros after the point), nine digits to an entry
MinBoundPacked ==
  <<247032822, 920623272, 88284396, 434110686, 182529901, 307162382,
    212792841, 250337753, 635104375, 932649918, 180817996, 189898282,
    347722858, 865463328, 355177969, 898199387, 398005390, 939063150,
    356595155, 702263922, 908583924, 491051844, 359318028, 499365361,
    525003193, 704576782, 492193656, 236698636, 584807570, 15857692,
    699037063, 119282795, 585513329, 278343384, 93519780, 155312465,
    972635795, 746227664, 652728272, 200563740, 64854999, 770965994,
    704540208, 281662262, 378573934, 507363390, 79677619, 305775067,
    401763246, 736009689, 513405355, 374585166, 611342237, 666786041,
    621596804, 619144672, 918403005, 300575308, 490487653, 917113865,
    916462395, 249126236, 538818796, 362393732, 804238910, 186723484,
    976682350, 898633885, 879256283, 27559956, 575244555, 72551893,
    136908362, 547791869, 486679949, 683240497, 58210285, 131854513,
    962138377, 228261454, 376934125, 320985913, 276672363, 281250000>>

Unpack(packed) ==
  AsTuple([i \in 1..(9 * Len(packed)) |->
     (packed[((i - 1) \div 9) + 1] \div Pow10(8 - ((i - 1) % 9))) % 10])

\* the magnitude 0.sig * 10^point is 2^1024 - 2^970 or more
Overflows(point, sig) ==
  \/ point > 309
  \/ point = 309 /\ FractionLeq(Unpack(MaxBoundPacked), sig)

\* the magnitude 0.sig * 10^point is 2^-1075 or less
Underflows(point, sig) ==
  \/ point < 0 - 323
  \/ point = 0 - 323 /\ FractionLeq(sig, Unpack(MinBoundPacked))

\* the fraction digits of 2 * 0.d, for 0.d below 1/2
Double(d) ==
  StripRight(AsTuple([i \in DOMAIN d |->
    (2 * d[i] + (IF DigitAt(d, i + 1) >= 5 THEN 1 ELSE 0)) % 10]))

RECURSIVE Doubled(_, _)
Doubled(d, n) ==
  IF n = 0 THEN d ELSE Only({Doubled(x, n - 1) : x \in {Double(d)}})

RECURSIVE Log2(_)
Log2(k) == IF k < 2 THEN 0 ELSE 1 + Log2(k \div 2)

\* the 54 fraction digits of 2^-54, nine digits to an entry
HalfUlpBelowOnePacked == <<0, 55, 511151231, 257827021, 181583404, 541015625>>

\* half the distance between neighbouring doubles in [k, k + 1], as
\* fraction digits: 2^(e - 53) for 2^e <= k < 2^(e + 1), and 2^-54 below 1
HalfUlp(k) ==
  Doubled(Unpack(HalfUlpBelowOnePacked), IF k = 0 THEN 0 ELSE Log2(k) + 1)

\* the fraction digits of 1 - 0.h
OneMinus(h) ==
  AsTuple([i \in DOMAIN h |-> IF i = Len(h) THEN 10 - h[i] ELSE 9 - h[i]])

\* The double nearest to ip.fp (ties to even) where that double is an
\* integer: a fraction within half a step of k or of k + 1 is rounded onto
\* it.  Any other value lies, like its nearest double, strictly between k
\* and k + 1 and is kept as written; so is a value of 10^9 or more.
NearestInteger(neg, ip, fp) ==
  IF fp = <<>> \/ Len(ip) > 9 \/ fp[1] \notin {0, 9} THEN Finite(neg, ip, fp)
  ELSE Only({ IF k >= 1 /\ FractionLeq(fp, HalfUlp(k))
                THEN Finite(neg, ip, <<>>)
              ELSE IF FractionLeq(OneMinus(HalfUlp(k)), fp)
                THEN Finite(neg, NatDigits(k + 1), <<>>)
              ELSE Finite(neg, ip, fp) :
                k \in {DigitsValue(ip)} })

\* the digits before and after the point of 0.sig * 10^point
IntegerDigits(point, sig) ==
  IF point <= 0 THEN <<>> ELSE AsTuple([i \in 1..point |-> DigitAt(sig, i)])

FractionDigits(point, sig) ==
  IF point >= Len(sig) THEN <<>>
  ELSE AsTuple([i \in 1..(Len(sig) - point) |-> DigitAt(sig, i + point)])

\* the Number value of the magnitude 0.sig * 10^point, sig free of leading
\* and trailing zeros: too large is Infinity, too small is 0
RoundToDouble(neg, point, sig) ==
  IF sig = <<>> THEN Finite(neg, <<>>, <<>>)
  ELSE IF Overflows(point, sig) THEN Infinity(neg)
  ELSE IF Underflows(point, sig) THEN Finite(neg, <<>>, <<>>)
  ELSE NearestInteger(neg, IntegerDigits(point, sig),
                      FractionDigits(point, sig))

ToDigits(s) == AsTuple([i \in DOMAIN s |-> DigitVal(s[i])])

NotPoint(c) == c # "."

\* digits with at most one ".", at least one digit:  D+ | D+ . D* | . D+
IsMantissa(m) ==
  LET dots == {i \in DOMAIN m : m[i] = "."} IN
  /\ Cardinality(dots) <= 1
  /\ Len(m) > Cardinality(dots)
  /\ \A i \in DOMAIN m : m[i] = "." \/ IsDigit(m[i], 10)

\* ExponentPart after its "e" or "E": an optional sign and digits
ExponentDigits(x) ==
  IF x # <<>> /\ Head(x) \in {"+", "-"} THEN Tail(x) ELSE x

IsExponent(x) == ExponentDigits(x) # <<>> /\ AllDigits(ExponentDigits(x), 10)

ExponentValue(x) ==
  IF Head(x) = "-"
    THEN 0 - DigitsValue(StripLeft(ToDigits(ExponentDigits(x))))
    ELSE DigitsValue(StripLeft(ToDigits(ExponentDigits(x))))

\* StrUnsignedDecimalLiteral: Infinity, or a mantissa with an optional
\* exponent part
UnsignedToNumber(neg, u) ==
  IF u = <<"I", "n", "f", "i", "n", "i", "t", "y">> THEN Infinity(neg)
  ELSE LET es == {i \in DOMAIN u : u[i] \in {"e", "E"}}
           m  == IF es = {} THEN u ELSE SubSeq(u, 1, Least(es) - 1)
           x  == IF es = {} THEN <<>> ELSE SubSeq(u, Least(es) + 1, Len(u))
       IN IF ~IsMantissa(m) \/ (es # {} /\ ~IsExponent(x)) THEN NaN
          ELSE Only({ RoundToDouble(neg,
                        Len(SelectSeq(SubSeq(m, 1, Least(
                          {i \in DOMAIN m : m[i] = "."} \cup {Len(m) + 1}) - 1),
                          NotPoint))
                          + (IF es = {} THEN 0 ELSE ExponentValue(x))
                          - (Len(ds) - Len(StripLeft(ds))),
                        StripRight(StripLeft(ds))) :
                        ds \in {ToDigits(SelectSeq(m, NotPoint))} })

\* NonDecimalIntegerLiteral: 0b, 0o or 0x (either case) and digits of the
\* radix; it takes no sign
Radix(c) ==
  CASE c \in {"b", "B"} -> 2
    [] c \in {"o", "O"} -> 8
    [] c \in {"x", "X"} -> 16

IsNonDecimal(b) ==
  /\ Len(b) >= 3
  /\ b[1] = "0"
  /\ b[2] \in {"b", "B", "o", "O", "x", "X"}
  /\ AllDigits(SubSeq(b, 3, Len(b)), Radix(b[2]))

NonDecimalToNumber(b) ==
  Only({ RoundToDouble(FALSE, Len(ip), StripRight(ip)) :
           ip \in {Reverse(RadixToDecimal(SubSeq(b, 3, Len(b)),
                                          Radix(b[2])))} })

\* ToNumber applied to a string (StringToNumber): surrounding white space is
\* dropped; the empty string is 0; then a non-decimal integer literal, or an
\* optional sign and an unsigned decimal literal; anything else is NaN.
StringToNumber(s) ==
  Only({ IF b = <<>> THEN Finite(FALSE, <<>>, <<>>)
         ELSE IF IsNonDecimal(b) THEN NonDecimalToNumber(b)
         ELSE IF Head(b) = "-" THEN UnsignedToNumber(TRUE, Tail(b))
         ELSE IF Head(b) = "+" THEN UnsignedToNumber(FALSE, Tail(b))
         ELSE UnsignedToNumber(FALSE, b) :
           b \in {Trim(s)} })

ToNumber(v) ==
  CASE v.t = "undefined" -> NaN
    [] v.t = "string"    -> StringToNumber(v.s)
    [] v.t = "number"    ->
         IF v.n < 0 THEN Finite(TRUE, NatDigits(0 - v.n), <<>>)
         ELSE Finite(FALSE, NatDigits(v.n), <<>>)

\* the global isNaN(v): ToNumber(v) is NaN
IsNaN(v) == ToNumber(v).nan

\* a > 0 with a coerced to a number (a comparison with NaN is false)
GreaterThanZero(v) ==
  \E x \in {ToNumber(v)} :
    ~x.nan /\ ~x.neg /\ (x.inf \/ x.ip # <<>> \/ x.fp # <<>>)

\* i < a for an integer i, with a coerced to a number
IntLessThan(i, v) ==
  \E x \in {ToNumber(v)} : \E k \in {DigitsValue(x.ip)} :
    /\ ~x.nan
    /\ IF x.neg THEN ~x.inf /\ i < 0 /\ k < 0 - i
       ELSE x.inf \/ i < k \/ (i = k /\ x.fp # <<>>)

\* ------------------------------------------------------------------------
\* The core behind dataStore.query, sorting.sortResults and
\* scoring.scoreResults (specification sections 3 and 4)
\* ------------------------------------------------------------------------

UpperCase ==
  <<"A", "B", "C", "D", "E", "F", "G", "H", "I", "J", "K", "L", "M",
    "N", "O", "P", "Q", "R", "S", "T", "U", "V", "W", "X", "Y", "Z">>

LowerCase ==
  <<"a", "b", "c", "d", "e", "f", "g", "h", "i", "j", "k", "l", "m",
    "n", "o", "p", "q", "r", "s", "t", "u", "v", "w", "x", "y", "z">>

\* case folding and diacritic stripping of one character
Fold(c) ==
  IF \E i \in DOMAIN UpperCase : UpperCase[i] = c
    THEN LowerCase[CHOOSE i \in DOMAIN UpperCase : UpperCase[i] = c]
  ELSE IF c \in {"U+00E9", "U+00C9", "U+00E8", "U+00EA"} THEN "e"
  ELSE c

\* 4.2 Normalizer: lower-case, strip diacritics, trim surrounding blanks
Normalize(s) == Only({ [i \in DOMAIN t |-> Fold(t[i])] : t \in {Trim(s)} })

IsPrefix(p, s) == Len(p) <= Len(s) /\ SubSeq(s, 1, Len(p)) = p

\* 4.1 the index entry of a place: its normalized name, then its
\* normalized aliases in order
NormalizedNames(name, aliases) ==
  <<Normalize(name)>> \o [i \in DOMAIN aliases |-> Normalize(aliases[i])]

\* a catalog row as loaded, with its index entry
Place(name, aliases, lat, lon, pop) ==
  [name |-> name, aliases |-> aliases, latitude |-> lat, longitude |-> lon,
   population |-> pop, index |-> NormalizedNames(name, aliases)]

\* The catalog held by the data store once setDataSource has succeeded.
\* Coordinates are whole degrees.
Gazetteer ==
  << Place(<<"L","o","n","d","o","n">>, <<>>, 51, 0, 8000000),
     Place(<<"L","o","n","d","o","n">>, <<>>, 43, -81, 400000),
     Place(<<"L","o","r","a","i","n">>, <<>>, 41, -82, 64000),
     Place(<<"L","o","d","i">>, <<>>, 38, -121, 64000),
     Place(<<"L","o","m","a">>, <<>>, 47, -110, 90),
     Place(<<"L","o","s"," ","A","n","g","e","l","e","s">>,
           << <<"L","A">> >>, 34, -118, 3800000),
     Place(<<"M","o","n","t","r","U+00E9","a","l">>,
           << <<"M","o","n","t","r","e","a","l">> >>, 45, -73, 1600000) >>

\* the first index entry of the place that begins with nq (0: none)
MatchedName(place, nq) ==
  LET hits == {i \in DOMAIN place.index : IsPrefix(nq, place.index[i])}
  IN IF hits = {} THEN 0 ELSE CHOOSE i \in hits : \A j \in hits : i <= j

Candidate(catalog, id, nq) ==
  [id |-> id, place |-> catalog[id], matched |-> Len(nq),
   nameLength |-> Len(catalog[id].index[MatchedName(catalog[id], nq)])]

RECURSIVE MatchFrom(_, _, _)
MatchFrom(catalog, id, nq) ==
  IF id > Len(catalog) THEN <<>>
  ELSE IF MatchedName(catalog[id], nq) # 0
    THEN <<Candidate(catalog, id, nq)>> \o MatchFrom(catalog, id + 1, nq)
    ELSE MatchFrom(catalog, id + 1, nq)

\* 4.3 Matcher: the candidates in catalog order; none for an empty
\* normalized query
Match(catalog, text) ==
  Only({ IF nq = <<>> THEN <<>> ELSE MatchFrom(catalog, 1, nq) :
           nq \in {Normalize(text)} })

\* the place item i takes when the items are put in ascending order of key,
\* items of equal key staying in input order
RankOf(keys, i) ==
  1 + Cardinality({j \in DOMAIN keys :
                     keys[j] < keys[i] \/ (keys[j] = keys[i] /\ j < i)})

\* the items of a sequence in ascending order of key, ties in input order
SortByKey(items, keys) ==
  [k \in DOMAIN items |->
     items[CHOOSE i \in DOMAIN items : RankOf(keys, i) = k]]

\* 4.5 population mode: descending population, stable
sortResultsByPopulation(results) ==
  SortByKey(results, [i \in DOMAIN results |-> 0 - results[i].place.population])

\* a Number value in tenths, cut off toward 0 and limited to 1000 either way
Tenths(x) ==
  LET t == IF x.inf \/ Len(x.ip) > 3 THEN 10000
           ELSE 10 * DigitsValue(x.ip) + DigitAt(x.fp, 1)
  IN IF x.neg THEN 0 - t ELSE t

\* squared distance in tenths between the point (lat, lon) and a place.
\* This is a planar stand-in for the haversine distance of 4.5: it gives a
\* total, deterministic order by nearness but not always the great-circle
\* order, so nothing below depends on which of two places is the nearer.
DistanceKey(place, lat, lon) ==
  LET dy == Tenths(lat) - 10 * place.latitude
      dx == Tenths(lon) - 10 * place.longitude
  IN dy * dy + dx * dx

\* 4.5 distance mode: ascending distance from the supplied point
sortResultsByDistance(results, point) ==
  Only({ SortByKey(results,
           [i \in DOMAIN results |-> DistanceKey(results[i].place, lat, lon)]) :
           lat \in {ToNumber(point.latitude)},
           lon \in {ToNumber(point.longitude)} })

\* sorting.sortResults(results, sortFunction, point)
sortResults(results, mode, point) ==
  IF mode = "distance" THEN sortResultsByDistance(results, point)
  ELSE sortResultsByPopulation(results)

\* 4.4 Scorer: matched / name length, clamped to [0,1], rounded to two
\* decimals; the value is in hundredths
Score(candidate) ==
  LET raw == (200 * candidate.matched + candidate.nameLength)
               \div (2 * candidate.nameLength)
  IN IF raw > 100 THEN 100 ELSE raw

Suggestion(candidate) ==
  [name |-> candidate.place.name, latitude |-> candidate.place.latitude,
   longitude |-> candidate.place.longitude, score |-> Score(candidate)]

\* the number of entries slice(0, k) keeps of a sequence of length len: k is
\* cut off toward 0, a negative k counts from the end
SliceEnd(len, k) ==
  IF k.nan THEN 0
  ELSE IF k.inf THEN (IF k.neg THEN 0 ELSE len)
  ELSE LET n == DigitsValue(k.ip) IN
       IF k.neg THEN (IF n = 0 \/ n >= len THEN 0 ELSE len - n)
       ELSE IF n > len THEN len ELSE n

\* 4.6 scoring.scoreResults(results, maxResults): the first maxResults
\* entries, each scored, in the given order
scoreResults(results, limit) ==
  LET n == SliceEnd(Len(results), ToNumber(limit))
  IN [i \in 1..n |-> Suggestion(results[i])]

\* ------------------------------------------------------------------------
\* The host: module variables, start-up, request handling (app.js)
\* ------------------------------------------------------------------------

\* the largest number of workers the master forks
MaxWorkers == 2

\* the number of requests a run of Spec, StartSpec and ConcSpec receives
MaxReqs == 1

MaxStartReqs == 1

MaxConcReqs == 2

Procs == 0..MaxWorkers

VARIABLES
  envNumChildren,  \* process.env.NUM_CHILDREN
  envMaxResults,   \* process.env.MAX_RESULTS
  cpus,            \* require('os').cpus().length
  ppc,             \* per process: where it is in main / initServer, or
                   \* "none" (not started), "exited" (a worker that died)
  store,           \* per process: the catalog held by the data store module
  loads,           \* per process: calls of dataStore.setDataSource
  listeners,       \* per process: servers created with listen called
  log,             \* per process: what initServer and main wrote to the console
  rpc,             \* per request: "idle", "querying" or "done"
  req,             \* per request: the parsed request (userRequest and method)
  rproc,           \* per request: the process whose server received it
  resLog,          \* per request: the calls made on its response object
  calls,           \* per request: the calls made into the libraries
  received         \* the requests in the order the servers received them

vars == <<envNumChildren, envMaxResults, cpus, ppc, store, loads, listeners,
          log, rpc, req, rproc, resLog, calls, received>>

procVars == <<ppc, store, loads, listeners, log>>

reqVars == <<rpc, req, rproc, resLog, calls, received>>

envVars == <<envNumChildren, envMaxResults, cpus>>

DefaultMaxResults == 4

\* var numChildren = process.env.NUM_CHILDREN || require('os').cpus().length
numChildren == JsOr(envNumChildren, JsNum(cpus))

\* maxResults without the environment's value
maxResultsDefaultOnly == JsNum(DefaultMaxResults)

\* var maxResults = process.env.MAX_RESULTS || 4
maxResults == JsOr(envMaxResults, JsNum(DefaultMaxResults))

\* the iterations of  for (i = 0; i < numChildren; i++)  for a count nc,
\* counted no further than MaxWorkers + 1 (the loop of a larger count, or of
\* Infinity, goes on past every bound)
ForkCountOf(nc) ==
  CHOOSE i \in 0..(MaxWorkers + 1) :
    /\ i <= MaxWorkers => ~IntLessThan(i, nc)
    /\ \A j \in 0..(i - 1) : IntLessThan(j, nc)

ForkCount == ForkCountOf(numChildren)

\* the branch main's callback takes for callback(err, server)
MainCallback(err, server) ==
  IF err THEN "console.error(err)"
  ELSE IF server THEN "Child server running"
  ELSE "Master server running"

\* cluster.isMaster
IsMaster(p) == p = 0

\* the test of initServer's first branch
ForksWorkers(p) == IsMaster(p) /\ GreaterThanZero(numChildren)

\* initServer, first branch: fork the workers, then callback()
InitServerFork(p) ==
  /\ ppc[p] = "main"
  /\ ForksWorkers(p)
  /\ ppc' = [w \in Procs |->
               IF w = p THEN "master"
               ELSE IF w \in 1..ForkCount THEN "main"
               ELSE ppc[w]]
  /\ log' = [log EXCEPT ![p] = Append(@, MainCallback(FALSE, FALSE))]
  /\ UNCHANGED <<store, loads, listeners>>
  /\ UNCHANGED reqVars
  /\ UNCHANGED envVars

\* initServer, second branch: dataStore.setDataSource is called
InitServerLoad(p) ==
  /\ ppc[p] = "main"
  /\ ~ForksWorkers(p)
  /\ ppc' = [ppc EXCEPT ![p] = "loading"]
  /\ loads' = [loads EXCEPT ![p] = @ + 1]
  /\ UNCHANGED <<store, listeners, log>>
  /\ UNCHANGED reqVars
  /\ UNCHANGED envVars

\* OnLoadError without the else: the server is created all the same
OnLoadErrorStillListens(p) ==
  /\ ppc' = [ppc EXCEPT ![p] = "serving"]
  /\ log' = [log EXCEPT ![p] =
               @ \o <<"Unable to set the cities data source",
                      MainCallback(FALSE, TRUE)>>]
  /\ listeners' = [listeners EXCEPT ![p] = @ + 1]
  /\ UNCHANGED store

\* what the callback given to setDataSource does with a load error
OnLoadError(p) ==
  /\ ppc' = [ppc EXCEPT ![p] = "failed"]
  /\ log' = [log EXCEPT ![p] = Append(@, "Unable to set the cities data source")]
  /\ UNCHANGED <<store, listeners>>

\* what the callback given to setDataSource does after a successful load
OnLoadSuccess(p) ==
  /\ ppc' = [ppc EXCEPT ![p] = "serving"]
  /\ store' = [store EXCEPT ![p] = Gazetteer]
  /\ listeners' = [listeners EXCEPT ![p] = @ + 1]
  /\ log' = [log EXCEPT ![p] = Append(@, MainCallback(FALSE, TRUE))]

\* the callback given to dataStore.setDataSource
SetDataSourceCallback(p, err) ==
  /\ ppc[p] = "loading"
  /\ IF err THEN OnLoadError(p) ELSE OnLoadSuccess(p)
  /\ UNCHANGED loads
  /\ UNCHANGED reqVars
  /\ UNCHANGED envVars

\* cluster.on('exit', ...): a worker the master forked has died, at whatever
\* point it was, and the master logs it.  The dead worker takes no further
\* step; its pending query callbacks are never called.
OnWorkerExit(w) ==
  /\ ppc[0] = "master"
  /\ ~IsMaster(w)
  /\ ppc[w] \notin {"none", "exited"}
  /\ ppc' = [ppc EXCEPT ![w] = "exited"]
  /\ log' = [log EXCEPT ![0] = Append(@, "worker died")]
  /\ UNCHANGED <<store, loads, listeners>>
  /\ UNCHANGED reqVars
  /\ UNCHANGED envVars

\* JSON.stringify(value): the text that parses back to value
JsonStringify(value) == [json |-> value]

docUrl ==
  "https://github.com/patrick-hubert/coding-challenge-backend-c/wiki/API-Documentation#api-call"

ErrorObject(status, code, message) ==
  [status |-> status, code |-> code, message |-> message, moreInfo |-> docUrl]

eMissingRequiredQueryParameter ==
  JsonStringify(ErrorObject("400", "MissingRequiredQueryParameter",
    "A required query parameter was not specified for this request."))

eInvalidQueryParameterValue ==
  JsonStringify(ErrorObject("400", "InvalidQueryParameterValue",
    "An invalid value was specified for one of the query parameters in the request URI."))

eInvalidPath == JsonStringify(ErrorObject("404", "InvalidPath", "Invalid path."))

\* the body sent when the catalog query reports err
InternalErrorBody(err) == JsonStringify(ErrorObject("500", "InternalError", err))

\* the body sent with a suggestion list
SuggestionsBody(suggestions) == JsonStringify([suggestions |-> suggestions])

\* res.writeHead(status, {'Content-Type': 'application/json'})
WriteHead(status) == [op |-> "writeHead", status |-> status]

\* res.end(body)
End(body) == [op |-> "end", body |-> body]

\* the two calls every branch makes on its response object
Respond(status, body) == <<WriteHead(status), End(body)>>

\* the error the data store reports when a query fails
QueryError == "query failed"

NoRequest ==
  [method |-> "", pathname |-> "", q |-> JsUndefined, latitude |-> JsUndefined,
   longitude |-> JsUndefined]

Request(method, pathname, q, latitude, longitude) ==
  [method |-> method, pathname |-> pathname, q |-> q, latitude |-> latitude,
   longitude |-> longitude]

\* Locals with the three variables declared without var: they are globals,
\* holding what the latest request of the process assigned
LocalsShared(r) ==
  LET mine == SelectSeq(received, LAMBDA x : rproc[x] = rproc[r])
      last == mine[Len(mine)]
  IN [query |-> req[last].q, latitude |-> req[last].latitude,
      longitude |-> req[last].longitude]

\* the handler's local variables query, latitude and longitude, as the
\* callback given to dataStore.query sees them
Locals(r) ==
  [query |-> req[r].q, latitude |-> req[r].latitude,
   longitude |-> req[r].longitude]

\* MissingQuery without the test for the empty string
MissingQueryUndefinedOnly(query) == IsUndefined(query)

\* _.isUndefined(query) || query === ''
MissingQuery(query) == IsUndefined(query) \/ query = JsStr(<<>>)

\* InvalidCoordinates without the test of longitude
InvalidCoordinatesLatitudeOnly(latitude, longitude) ==
  Truthy(latitude) /\ IsNaN(latitude)

\* (latitude && isNaN(latitude)) || (longitude && isNaN(longitude))
InvalidCoordinates(latitude, longitude) ==
  \/ Truthy(latitude) /\ IsNaN(latitude)
  \/ Truthy(longitude) /\ IsNaN(longitude)

\* RankingMode with || in place of &&
RankingModeEither(latitude, longitude) ==
  IF Truthy(longitude) \/ Truthy(latitude) THEN "distance" ELSE "population"

\* if (longitude && latitude): sort by distance, else by population
RankingMode(latitude, longitude) ==
  IF Truthy(longitude) /\ Truthy(latitude) THEN "distance" ELSE "population"

\* StatusFor without the test for an empty list
StatusForAlwaysFound(suggestions) == 200

\* the status written for a suggestion list
StatusFor(suggestions) == IF Len(suggestions) = 0 THEN 404 ELSE 200

\* the server accepts the route
RouteMatches(request) ==
  request.pathname = "/v1/suggestions" /\ request.method = "GET"

QueryCall(query) == [fn |-> "dataStore.query", query |-> query]

\* the data store calling back: callback(err) or callback(null, results)
QueryReturn(failed, results) ==
  [fn |-> "dataStore.query callback", failed |-> failed, results |-> results]

SortCall(input, mode, point, output) ==
  [fn |-> "sorting.sortResults", input |-> input, mode |-> mode,
   point |-> point, output |-> output]

ScoreCall(input, limit, output) ==
  [fn |-> "scoring.scoreResults", input |-> input, limit |-> limit,
   output |-> output]

\* the point handed to sortResults in distance mode (none otherwise)
PointFor(mode, latitude, longitude) ==
  IF mode = "distance"
    THEN [latitude |-> latitude, longitude |-> longitude]
    ELSE [latitude |-> JsUndefined, longitude |-> JsUndefined]

\* handlerSuggestion up to the call of dataStore.query
handlerSuggestion(r, userRequest) ==
  LET query     == userRequest.q
      latitude  == userRequest.latitude
      longitude == userRequest.longitude
  IN IF MissingQuery(query)
       THEN /\ resLog' = [resLog EXCEPT ![r] =
                            @ \o Respond(400, eMissingRequiredQueryParameter)]
            /\ rpc' = [rpc EXCEPT ![r] = "done"]
            /\ UNCHANGED calls
     ELSE IF InvalidCoordinates(latitude, longitude)
       THEN /\ resLog' = [resLog EXCEPT ![r] =
                            @ \o Respond(400, eInvalidQueryParameterValue)]
            /\ rpc' = [rpc EXCEPT ![r] = "done"]
            /\ UNCHANGED calls
     ELSE /\ calls' = [calls EXCEPT ![r] = Append(@, QueryCall(query))]
          /\ rpc' = [rpc EXCEPT ![r] = "querying"]
          /\ UNCHANGED resLog

\* the request listener given to http.createServer
RequestListener(p, r, request) ==
  /\ ppc[p] = "serving"
  /\ listeners[p] > 0
  /\ rpc[r] = "idle"
  /\ req' = [req EXCEPT ![r] = request]
  /\ rproc' = [rproc EXCEPT ![r] = p]
  /\ received' = Append(received, r)
  /\ IF RouteMatches(request)
       THEN handlerSuggestion(r, request)
       ELSE /\ resLog' = [resLog EXCEPT ![r] = @ \o Respond(404, eInvalidPath)]
            /\ rpc' = [rpc EXCEPT ![r] = "done"]
            /\ UNCHANGED calls
  /\ UNCHANGED procVars
  /\ UNCHANGED envVars

\* OnQueryError without the answer
OnQueryErrorSilent(r, err) ==
  /\ calls' = [calls EXCEPT ![r] = Append(@, QueryReturn(TRUE, <<>>))]
  /\ UNCHANGED resLog

\* the callback given to dataStore.query, error branch
OnQueryError(r, err) ==
  /\ calls' = [calls EXCEPT ![r] = Append(@, QueryReturn(TRUE, <<>>))]
  /\ resLog' = [resLog EXCEPT ![r] = @ \o Respond(500, InternalErrorBody(err))]

\* OnQueryResults with the ranked sequence dropped: the matches are scored
\* and truncated in catalog order
OnQueryResultsUnranked(r, results) ==
  LET latitude    == Locals(r).latitude
      longitude   == Locals(r).longitude
      mode        == RankingMode(latitude, longitude)
      point       == PointFor(mode, latitude, longitude)
  IN \E ranked \in {sortResults(results, mode, point)} :
     \E suggestions \in {scoreResults(results, maxResults)} :
       /\ calls' = [calls EXCEPT ![r] =
                      @ \o << QueryReturn(FALSE, results),
                              SortCall(results, mode, point, ranked),
                              ScoreCall(results, maxResults, suggestions) >>]
       /\ resLog' = [resLog EXCEPT ![r] =
                       @ \o Respond(StatusFor(suggestions),
                                    SuggestionsBody(suggestions))]

\* the callback given to dataStore.query, success branch: rank, then
\* score and truncate, then answer
OnQueryResults(r, results) ==
  LET latitude    == Locals(r).latitude
      longitude   == Locals(r).longitude
      mode        == RankingMode(latitude, longitude)
      point       == PointFor(mode, latitude, longitude)
  IN \E ranked \in {sortResults(results, mode, point)} :
     \E suggestions \in {scoreResults(ranked, maxResults)} :
       /\ calls' = [calls EXCEPT ![r] =
                      @ \o << QueryReturn(FALSE, results),
                              SortCall(results, mode, point, ranked),
                              ScoreCall(ranked, maxResults, suggestions) >>]
       /\ resLog' = [resLog EXCEPT ![r] =
                       @ \o Respond(StatusFor(suggestions),
                                    SuggestionsBody(suggestions))]

\* dataStore.query(query, callback) calls back with an error or the matches
QueryCallback(r, err) ==
  /\ rpc[r] = "querying"
  /\ ppc[rproc[r]] = "serving"
  /\ rpc' = [rpc EXCEPT ![r] = "done"]
  /\ UNCHANGED <<req, rproc, received>>
  /\ UNCHANGED procVars
  /\ UNCHANGED envVars
  /\ IF err
       THEN OnQueryError(r, QueryError)
       ELSE \E results \in {Match(store[rproc[r]], Locals(r).query.s)} :
              OnQueryResults(r, results)

\* ------------------------------------------------------------------------
\* Inputs, initial states and specifications
\* ------------------------------------------------------------------------

Undefined == JsUndefined

EmptyString == JsStr(<<>>)

\* values of the q parameter
QValues == {Undefined, EmptyString, JsStr(<<"l","o">>), JsStr(<<"z","z">>)}

\* values of the latitude and longitude parameters
CoordValues ==
  {Undefined, EmptyString, JsStr(<<"-","8",".","1","5","e","1">>),
   JsStr(<<"\t","0","x","2","B">>), JsStr(<<"4","a">>)}

\* requests off the suggestions route
OffRoute ==
  {Request("POST", "/v1/suggestions", JsStr(<<"l","o">>), Undefined, Undefined),
   Request("GET", "/suggestions", JsStr(<<"l","o">>), Undefined, Undefined),
   Request("PUT", "/", Undefined, Undefined, Undefined)}

Inputs ==
  {Request("GET", "/v1/suggestions", q, la, lo) :
     q \in QValues, la \in CoordValues, lo \in CoordValues} \cup OffRoute

\* requests of the start-up specification
StartInputs ==
  {Request("GET", "/v1/suggestions", JsStr(<<"L","o","n","d","o">>),
           Undefined, Undefined),
   Request("GET", "/", Undefined, Undefined, Undefined)}

\* requests of the concurrency specification: one for each outcome, with
\* queries that need normalizing and coordinates in several notations
ConcInputs ==
  {Request("GET", "/v1/suggestions", JsStr(<<"l","o">>), Undefined, Undefined),
   Request("GET", "/v1/suggestions", JsStr(<<" ","L","O","N","D","o">>),
           JsStr(<<"+","4","3",".">>), JsStr(<<"-","8",".","1","E","+","1">>)),
   Request("GET", "/v1/suggestions", JsStr(<<"M","o","n","t","r","U+00E9">>),
           JsStr(<<".","5">>), Undefined),
   Request("GET", "/v1/suggestions", JsStr(<<"z","z">>), Undefined, Undefined),
   Request("GET", "/v1/suggestions", Undefined, JsStr(<<"4","3","\n">>),
           Undefined),
   Request("GET", "/v1/suggestions", JsStr(<<"l","o">>),
           JsStr(<<"0","b","1","1">>), JsStr(<<"1",".","2",".","3">>)),
   Request("GET", "/v1/suggestions", JsStr(<<"L","o","n">>), JsStr(<<" ">>),
           JsStr(<<"-","8","1">>)),
   Request("POST", "/v1/suggestions", JsStr(<<"l","o">>), Undefined, Undefined)}

\* values of MAX_RESULTS: unset, empty, and non-negative integers
MaxResultsValues == {Undefined, EmptyString, JsStr(<<"0">>), JsStr(<<"2">>)}

\* values of NUM_CHILDREN
NumChildrenValues ==
  {Undefined, EmptyString, JsStr(<<"0">>), JsStr(<<"1">>), JsStr(<<"2">>),
   JsStr(<<"3">>), JsStr(<<"4">>), JsStr(<<"1",".","5">>), JsStr(<<"a">>),
   JsStr(<<"-","1">>), JsStr(<<"0","x","2">>), JsStr(<<"1","e","0">>),
   JsStr(<<"\t","1">>), JsStr(<<"0","b","0">>), JsStr(<<"1","e","-","4","0","0">>),
   JsStr(<<"I","n","f","i","n","i","t","y">>)}

\* the state after the module is loaded in the master, before main() runs
InitWith(numChildrenSet, maxResultsSet, cpuSet, reqs) ==
  /\ envNumChildren \in numChildrenSet
  /\ envMaxResults \in maxResultsSet
  /\ cpus \in cpuSet
  /\ ForkCount <= MaxWorkers
  /\ ppc = [p \in Procs |-> IF IsMaster(p) THEN "main" ELSE "none"]
  /\ store = [p \in Procs |-> <<>>]
  /\ loads = [p \in Procs |-> 0]
  /\ listeners = [p \in Procs |-> 0]
  /\ log = [p \in Procs |-> <<>>]
  /\ rpc = [r \in reqs |-> "idle"]
  /\ req = [r \in reqs |-> NoRequest]
  /\ rproc = [r \in reqs |-> 0]
  /\ resLog = [r \in reqs |-> <<>>]
  /\ calls = [r \in reqs |-> <<>>]
  /\ received = <<>>

Reqs == DOMAIN rpc

\* a master with one worker, every MAX_RESULTS setting, every request of
\* Inputs
Init == InitWith({Undefined}, MaxResultsValues, {1}, 1..MaxReqs)

Next ==
  \/ \E p \in Procs : InitServerFork(p)
  \/ \E p \in Procs : InitServerLoad(p)
  \/ \E p \in Procs, err \in BOOLEAN : SetDataSourceCallback(p, err)
  \/ \E p \in Procs, r \in Reqs, request \in Inputs : RequestListener(p, r, request)
  \/ \E r \in Reqs, err \in BOOLEAN : QueryCallback(r, err)
  \/ \E w \in Procs : OnWorkerExit(w)

Spec == Init /\ [][Next]_vars

\* start-up: every NUM_CHILDREN setting and processor count
StartInit ==
  InitWith(NumChildrenValues, {Undefined}, 1..MaxWorkers, 1..MaxStartReqs)

StartNext ==
  \/ \E p \in Procs : InitServerFork(p)
  \/ \E p \in Procs : InitServerLoad(p)
  \/ \E p \in Procs, err \in BOOLEAN : SetDataSourceCallback(p, err)
  \/ \E p \in Procs, r \in Reqs, request \in StartInputs :
       RequestListener(p, r, request)
  \/ \E r \in Reqs, err \in BOOLEAN : QueryCallback(r, err)
  \/ \E w \in Procs : OnWorkerExit(w)

StartSpec == StartInit /\ [][StartNext]_vars

\* several requests in flight in the serving processes
ConcInit ==
  InitWith({JsStr(<<"0">>), JsStr(<<"1">>)}, {Undefined, JsStr(<<"1">>)}, {1},
           1..MaxConcReqs)

ConcNext ==
  \/ \E p \in Procs : InitServerFork(p)
  \/ \E p \in Procs : InitServerLoad(p)
  \/ \E p \in Procs, err \in BOOLEAN : SetDataSourceCallback(p, err)
  \/ \E p \in Procs, r \in Reqs, request \in ConcInputs :
       RequestListener(p, r, request)
  \/ \E r \in Reqs, err \in BOOLEAN : QueryCallback(r, err)
  \/ \E w \in Procs : OnWorkerExit(w)

ConcSpec == ConcInit /\ [][ConcNext]_vars

\* dataStore.query calls its callback: a pending callback eventually runs
FairConcSpec ==
  /\ ConcSpec
  /\ \A r \in 1..MaxConcReqs :
       WF_vars(QueryCallback(r, TRUE) \/ QueryCallback(r, FALSE))

\* ------------------------------------------------------------------------
\* Properties
\* ------------------------------------------------------------------------

\* a parameter is supplied when the query string holds it, with any value
Supplied(v) == ~IsUndefined(v)

\* a supplied value is numeric when isNaN says it is a number
Numeric(v) == ~IsNaN(v)

\* request r arrived on the suggestions route
OnRoute(r) == rpc[r] # "idle" /\ RouteMatches(req[r])

\* request r carries a present, non-empty q
HasQuery(r) == Supplied(req[r].q) /\ req[r].q.s # <<>>

\* request r passed validation and its catalog query succeeded
Succeeded(r) ==
  /\ rpc[r] = "done"
  /\ Len(calls[r]) >= 2
  /\ ~calls[r][2].failed

\* the statuses written on r's response, in order
Statuses(r) ==
  LET heads == SelectSeq(resLog[r], LAMBDA e : e.op = "writeHead")
  IN [i \in DOMAIN heads |-> heads[i].status]

\* the bodies r's response was ended with, in order
Bodies(r) ==
  LET ends == SelectSeq(resLog[r], LAMBDA e : e.op = "end")
  IN [i \in DOMAIN ends |-> ends[i].body]

\* the calls of library function fn made for request r, in order
CallsOf(r, fn) == SelectSeq(calls[r], LAMBDA c : c.fn = fn)

\* the list scoring.scoreResults returned for request r
ScoredList(r) == CallsOf(r, "scoring.scoreResults")[1].output

\* C1: a request that passes validation and whose catalog query succeeds is
\* answered 404 exactly when its scored suggestion list is empty and 200
\* exactly when it is not, and the body is that list.
C1_StatusFollowsList ==
  \A r \in Reqs :
    Succeeded(r) =>
      /\ Len(CallsOf(r, "scoring.scoreResults")) = 1
      /\ Statuses(r) = << IF ScoredList(r) = <<>> THEN 404 ELSE 200 >>
      /\ Bodies(r) = << JsonStringify([suggestions |-> ScoredList(r)]) >>

C1_Witness ==
  \E r \in Reqs :
    /\ Succeeded(r)
    /\ Statuses(r) = <<200>>
    /\ Len(ScoredList(r)) > 1

\* C2: a request on the route whose q is absent or empty is answered
\* 400 MissingRequiredQueryParameter whatever its coordinates are, and no
\* library function is called for it.
C2_MissingQueryRejected ==
  \A r \in Reqs :
    (OnRoute(r) /\ ~HasQuery(r)) =>
      /\ rpc[r] = "done"
      /\ resLog[r] = Respond(400, eMissingRequiredQueryParameter)
      /\ calls[r] = <<>>

C2_Witness ==
  \E r \in Reqs :
    /\ OnRoute(r)
    /\ req[r].q = EmptyString
    /\ req[r].latitude = JsStr(<<"4","a">>)
    /\ Statuses(r) = <<400>>

\* a supplied coordinate that is not numeric
BadCoordinate(v) == Supplied(v) /\ ~Numeric(v)

\* C3: a request on the route with a present, non-empty q is answered
\* 400 InvalidQueryParameterValue, with no library call, exactly when its
\* latitude is supplied and not numeric or its longitude is supplied and not
\* numeric.
C3_InvalidCoordinatesRejected ==
  \A r \in Reqs :
    (OnRoute(r) /\ HasQuery(r)) =>
      IF BadCoordinate(req[r].latitude) \/ BadCoordinate(req[r].longitude)
        THEN /\ rpc[r] = "done"
             /\ resLog[r] = Respond(400, eInvalidQueryParameterValue)
             /\ calls[r] = <<>>
        ELSE /\ eInvalidQueryParameterValue \notin
                  {Bodies(r)[i] : i \in DOMAIN Bodies(r)}
             /\ Len(CallsOf(r, "dataStore.query")) = 1

C3_Witness ==
  \E r \in Reqs :
    /\ OnRoute(r) /\ HasQuery(r)
    /\ req[r].latitude = JsStr(<<"\t","0","x","2","B">>)
    /\ req[r].longitude = JsStr(<<"4","a">>)
    /\ resLog[r] = Respond(400, eInvalidQueryParameterValue)

\* the one call of sorting.sortResults made for request r
RankerCall(r) == CallsOf(r, "sorting.sortResults")[1]

\* C4 as claimed: the ranker runs once, in distance mode with the supplied
\* point exactly when latitude and longitude are both supplied and numeric,
\* in population mode otherwise.
C4_ModeBySuppliedNumeric ==
  \A r \in Reqs :
    Succeeded(r) =>
      /\ Len(CallsOf(r, "sorting.sortResults")) = 1
      /\ RankerCall(r).mode \in {"distance", "population"}
      /\ RankerCall(r).mode = "distance" <=>
           /\ Supplied(req[r].latitude) /\ Numeric(req[r].latitude)
           /\ Supplied(req[r].longitude) /\ Numeric(req[r].longitude)

\* C4 as amended: the ranker runs once, in distance mode with the supplied
\* point exactly when latitude and longitude are both supplied, non-empty
\* and numeric, in population mode otherwise (also when a coordinate is
\* absent or supplied as the empty string).
C4_ModeByNonEmptyNumeric ==
  \A r \in Reqs :
    Succeeded(r) =>
      /\ Len(CallsOf(r, "sorting.sortResults")) = 1
      /\ RankerCall(r).mode \in {"distance", "population"}
      /\ RankerCall(r).mode = "distance" <=>
           /\ Supplied(req[r].latitude) /\ req[r].latitude.s # <<>>
           /\ Numeric(req[r].latitude)
           /\ Supplied(req[r].longitude) /\ req[r].longitude.s # <<>>
           /\ Numeric(req[r].longitude)
      /\ RankerCall(r).mode = "distance" =>
           RankerCall(r).point =
             [latitude |-> req[r].latitude, longitude |-> req[r].longitude]

C4_Witness ==
  \E r \in Reqs :
    /\ Succeeded(r)
    /\ req[r].latitude = EmptyString
    /\ req[r].longitude = JsStr(<<"\t","0","x","2","B">>)
    /\ RankerCall(r).mode = "population"

\* MAX_RESULTS names a non-negative integer in decimal digits
ConfiguredLimit == envMaxResults.t = "string" /\ envMaxResults.s # <<>>
                   /\ AllDigits(envMaxResults.s, 10)

\* the number of entries maxResults allows
LimitValue ==
  IF ConfiguredLimit THEN DigitsValue(ToDigits(envMaxResults.s)) ELSE 4

\* C5: the suggestion list of a successful request has at most maxResults
\* entries, maxResults being the configured MAX_RESULTS, or 4 when
\* MAX_RESULTS is not set; with maxResults 0 the list is empty.
C5_AtMostMaxResults ==
  \A r \in Reqs :
    Succeeded(r) =>
      /\ Bodies(r) = << JsonStringify([suggestions |-> ScoredList(r)]) >>
      /\ IsUndefined(envMaxResults) => Len(ScoredList(r)) <= 4
      /\ ConfiguredLimit => Len(ScoredList(r)) <= LimitValue
      /\ (ConfiguredLimit /\ LimitValue = 0) =>
           ScoredList(r) = <<>>

C5_Witness ==
  \E r \in Reqs :
    /\ Succeeded(r)
    /\ envMaxResults = JsStr(<<"2">>)
    /\ Len(calls[r][2].results) > 2
    /\ Len(ScoredList(r)) = 2

Min(a, b) == IF a <= b THEN a ELSE b

\* C8: for a valid request the stages run once each in the order catalog
\* query, ranker, scoring with truncation; each takes the previous stage's
\* output; the suggestions are the first maxResults entries of the ranked
\* sequence, in ranked order.
C8_PipelineOrder ==
  \A r \in Reqs :
    Succeeded(r) =>
      LET c == calls[r] IN
      /\ Len(c) = 4
      /\ c[1] = QueryCall(req[r].q)
      /\ c[2].fn = "dataStore.query callback"
      /\ c[3].fn = "sorting.sortResults"
      /\ c[3].input = c[2].results
      /\ c[4].fn = "scoring.scoreResults"
      /\ c[4].input = c[3].output
      /\ c[4].limit = maxResults
      /\ (ConfiguredLimit \/ ~Truthy(envMaxResults)) =>
           Len(c[4].output) = Min(Len(c[3].output), LimitValue)
      /\ Len(c[4].output) <= Len(c[3].output)
      /\ \A i \in DOMAIN c[4].output :
           /\ c[4].output[i].name = c[3].output[i].place.name
           /\ c[4].output[i].latitude = c[3].output[i].place.latitude
           /\ c[4].output[i].longitude = c[3].output[i].place.longitude
      /\ Bodies(r) = << JsonStringify([suggestions |-> c[4].output]) >>

C8_Witness ==
  \E r \in Reqs :
    /\ Succeeded(r)
    /\ calls[r][3].output # calls[r][3].input
    /\ Len(calls[r][4].output) >= 2
    /\ Len(calls[r][4].output) < Len(calls[r][3].output)

\* the load of process p failed
LoadFailed(p) ==
  \E i \in DOMAIN log[p] : log[p][i] = "Unable to set the cities data source"

\* the server of process p has been handed a request
Handles(p) == \E r \in Reqs : rpc[r] # "idle" /\ rproc[r] = p

\* the master has forked workers
Forked == \E w \in Procs : ~IsMaster(w) /\ ppc[w] # "none"

\* C6: a process listens and handles a query only after its own load has
\* succeeded; a process whose load failed never listens and never handles a
\* query; a master that forks workers never listens.
C6_ListenOnlyAfterLoad ==
  \A p \in Procs :
    /\ (listeners[p] > 0 \/ Handles(p)) =>
         /\ loads[p] = 1
         /\ store[p] = Gazetteer
         /\ ~LoadFailed(p)
         /\ listeners[p] = 1
    /\ (LoadFailed(p) \/ ppc[p] = "failed") =>
         listeners[p] = 0 /\ ~Handles(p)
    /\ (IsMaster(p) /\ Forked) =>
         listeners[p] = 0 /\ ~Handles(p) /\ loads[p] = 0

C6_Witness ==
  /\ Forked
  /\ ppc[0] = "master"
  /\ \E w \in Procs : ppc[w] = "serving" /\ Handles(w)
  /\ \E w \in Procs : LoadFailed(w)

\* C7 as claimed: whenever the load fails, initServer's callback is called
\* with the error, so that main's error branch runs, and the load is not
\* tried again.
C7_LoadFailureReachesCaller ==
  \A p \in Procs :
    ppc[p] = "failed" =>
      /\ \E i \in DOMAIN log[p] : log[p][i] = MainCallback(TRUE, FALSE)
      /\ loads[p] = 1

\* the answer to a request handled on its own by a process holding catalog,
\* given whether the catalog query fails
ExpectedResponse(request, failed, catalog) ==
  IF ~(request.pathname = "/v1/suggestions" /\ request.method = "GET")
    THEN <<WriteHead(404), End(eInvalidPath)>>
  ELSE IF IsUndefined(request.q) \/ request.q.s = <<>>
    THEN <<WriteHead(400), End(eMissingRequiredQueryParameter)>>
  ELSE IF \/ request.latitude.s # <<>> /\ IsNaN(request.latitude)
          \/ request.longitude.s # <<>> /\ IsNaN(request.longitude)
    THEN <<WriteHead(400), End(eInvalidQueryParameterValue)>>
  ELSE IF failed
    THEN <<WriteHead(500), End(InternalErrorBody(QueryError))>>
  ELSE LET matches == Match(catalog, request.q.s)
           ranked  ==
             IF request.latitude.s # <<>> /\ request.longitude.s # <<>>
               THEN sortResultsByDistance(matches,
                      [latitude |-> request.latitude,
                       longitude |-> request.longitude])
               ELSE sortResultsByPopulation(matches)
           list    == scoreResults(ranked, maxResults)
       IN <<WriteHead(IF list = <<>> THEN 404 ELSE 200),
            End(JsonStringify([suggestions |-> list]))>>

\* the catalog query of request r reported an error
QueryFailed(r) == Len(calls[r]) >= 2 /\ calls[r][2].failed

\* C9: under every interleaving of the handlers and query callbacks of the
\* requests of one process, each request gets the answer it would get alone,
\* computed from its own q, latitude and longitude and the values fixed at
\* start-up; the catalog of a serving process is the loaded one throughout.
C9_AnswersIndependent ==
  /\ \A r \in Reqs :
       /\ rpc[r] = "done" =>
            resLog[r] = ExpectedResponse(req[r], QueryFailed(r), Gazetteer)
       /\ rpc[r] = "querying" =>
            resLog[r] = <<>> /\ calls[r] = <<QueryCall(req[r].q)>>
  /\ \A p \in Procs : ppc[p] = "serving" => store[p] = Gazetteer

\* a request overtaken by a later one of the same process, the two answered
\* differently
C9_Witness ==
  \E r1 \in Reqs, r2 \in Reqs :
    /\ Len(received) >= 2
    /\ received[1] = r1
    /\ received[2] = r2
    /\ rproc[r1] = rproc[r2]
    /\ rpc[r1] = "querying"
    /\ rpc[r2] = "done"
    /\ Len(calls[r2]) = 4
    /\ calls[r2][3].mode = "distance"
    /\ Statuses(r2) = <<200>>
    /\ req[r1].latitude = Undefined

\* the answer of request r is one of the six the server gives
OneOfSixAnswers(r) ==
  \/ /\ resLog[r] = Respond(404, eInvalidPath)
     /\ ~RouteMatches(req[r])
     /\ calls[r] = <<>>
  \/ /\ resLog[r] = Respond(400, eMissingRequiredQueryParameter)
     /\ RouteMatches(req[r])
  \/ /\ resLog[r] = Respond(400, eInvalidQueryParameterValue)
     /\ RouteMatches(req[r])
  \/ /\ resLog[r] = Respond(500, InternalErrorBody(QueryError))
     /\ RouteMatches(req[r])
     /\ calls[r] = <<QueryCall(req[r].q), QueryReturn(TRUE, <<>>)>>
  \/ /\ resLog[r] = Respond(404, JsonStringify([suggestions |-> <<>>]))
     /\ RouteMatches(req[r])
  \/ /\ Len(resLog[r]) = 2
     /\ resLog[r][1] = WriteHead(200)
     /\ resLog[r][2].op = "end"
     /\ resLog[r][2].body.json.suggestions # <<>>
     /\ RouteMatches(req[r])

\* C10: every request a listening server receives is eventually answered,
\* provided its query callback is called, which is so unless the worker
\* handling it dies; it is answered exactly once (one writeHead, then one
\* end), with one of: 404 InvalidPath
\* (off the route), 400 MissingRequiredQueryParameter,
\* 400 InvalidQueryParameterValue, 500 InternalError (the catalog query
\* failed; neither ranker nor scorer ran), 404 with an empty suggestion list,
\* 200 with a non-empty one.
C10_AnsweredExactlyOnce ==
  /\ [](\A r \in Reqs :
          IF rpc[r] = "done" THEN OneOfSixAnswers(r) ELSE resLog[r] = <<>>)
  /\ \A r \in 1..MaxConcReqs :
       (rpc[r] # "idle") ~> (rpc[r] = "done" \/ ppc[rproc[r]] = "exited")

C10_Witness ==
  \E r1 \in Reqs, r2 \in Reqs :
    /\ rpc[r1] = "done" /\ rpc[r2] = "done"
    /\ Statuses(r1) = <<500>>
    /\ resLog[r2] = Respond(404, JsonStringify([suggestions |-> <<>>]))

====
